---------------------------- MODULE Spec2Model ----------------------------
(***************************************************************************)
(* QuelPoke (src/main.go): the request handler index and the functions it  *)
(* calls: pokemonID, pokemonName, pokemonStats, radarPath and              *)
(* pokemonEvolutions.                                                      *)
(*                                                                         *)
(* Library calls are modelled by what they return: the SHA-1 digest of the *)
(* name, the outcome of an HTTP round trip and the body it carries are     *)
(* inputs drawn from the sets below; encoding/json, strconv and fmt are    *)
(* modelled by their effect on those inputs.                               *)
(***************************************************************************)
EXTENDS Integers, Sequences, FiniteSets, TLC

(***************************************************************************)
(* 64-bit machine words.  Go's uint64 and int (64 bits on the platforms   *)
(* the Dockerfile builds for) are kept at their width: a word is four     *)
(* 16-bit limbs, most significant first.                                   *)
(***************************************************************************)
LimbBase == 2 ^ 16

Limbs == 0 .. (LimbBase - 1)

W0 == <<0, 0, 0, 0>>

\* the word of a small natural number n < 2^16
W(n) == <<0, 0, 0, n>>

WMax == <<LimbBase - 1, LimbBase - 1, LimbBase - 1, LimbBase - 1>>

Zeros(n) == [i \in 1 .. n |-> 0]

IsZero(x) == \A i \in 1 .. Len(x) : x[i] = 0

\* x * k + c over the limbs of x; the carry out of the top limb is kept apart
RECURSIVE MulC(_, _, _)
MulC(x, k, c) ==
    IF x = <<>>
    THEN [v |-> <<>>, c |-> c]
    ELSE LET n == Len(x)
             s == x[n] * k + c
             r == MulC(SubSeq(x, 1, n - 1), k, s \div LimbBase)
         IN  [v |-> Append(r.v, s % LimbBase), c |-> r.c]

\* x divided by a small k, most significant limb first: quotient and remainder
RECURSIVE DivR(_, _, _)
DivR(x, k, r) ==
    IF x = <<>>
    THEN [q |-> <<>>, r |-> r]
    ELSE LET cur  == r * LimbBase + Head(x)
             rest == DivR(Tail(x), k, cur % k)
         IN  [q |-> <<cur \div k>> \o rest.q, r |-> rest.r]

\* x < y for two words of the same number of limbs
RECURSIVE Less(_, _)
Less(x, y) ==
    IF x = <<>>
    THEN FALSE
    ELSE IF Head(x) # Head(y)
         THEN Head(x) < Head(y)
         ELSE Less(Tail(x), Tail(y))

Leq(x, y) == x = y \/ Less(x, y)

\* x - y - b for x >= y + b, limb by limb with borrow
RECURSIVE SubB(_, _, _)
SubB(x, y, b) ==
    IF x = <<>>
    THEN <<>>
    ELSE LET n == Len(x)
             d == x[n] - y[n] - b
         IN  Append(SubB(SubSeq(x, 1, n - 1), SubSeq(y, 1, n - 1),
                         IF d < 0 THEN 1 ELSE 0),
                    IF d < 0 THEN d + LimbBase ELSE d)

\* bit i (0 = least significant) of a four-limb word
Bit(x, i) == (x[4 - (i \div 16)] \div (2 ^ (i % 16))) % 2

\* the remainder of h by m (m # 0), by binary long division on five limbs;
\* r is the remainder of the bits of h above bit i
RECURSIVE ModStep(_, _, _, _)
ModStep(h, m, i, r) ==
    IF Len(r) = 5 /\ i < 0
    THEN SubSeq(r, 2, 5)
    ELSE LET r2 == MulC(r, 2, Bit(h, i)).v
             m5 == <<0>> \o m
             r3 == IF Less(r2, m5) THEN r2 ELSE SubB(r2, m5, 0)
         IN  ModStep(h, m, i - 1, r3)

U64Mod(h, m) == ModStep(h, m, 63, Zeros(5))

\* uint64 addition of a small constant, wrapping modulo 2^64
U64AddSmall(x, k) == MulC(x, 1, k).v

\* two's complement negation
Complement(x) == [i \in 1 .. Len(x) |-> LimbBase - 1 - x[i]]

Negate(x) == MulC(Complement(x), 1, 1).v

\* the sign of a word read as a Go int
IsNegative(x) == x[1] >= LimbBase \div 2

IsPositive(x) == ~IsNegative(x) /\ ~IsZero(x)

\* Go's int multiplication by a small constant: the product wraps modulo 2^64
IntMulSmall(x, k) == MulC(x, k, 0).v

\* Go's int division by a small positive constant: truncates toward zero
IntDivSmall(x, k) ==
    IF IsNegative(x)
    THEN Negate(DivR(Negate(x), k, 0).q)
    ELSE DivR(x, k, 0).q

\* the word of the int -n, for a small natural number n
WNeg(n) == Negate(W(n))


(***************************************************************************)
(* Strings the code parses or builds are sequences of characters.          *)
(***************************************************************************)
DigitChars == <<"0", "1", "2", "3", "4", "5", "6", "7", "8", "9">>

IsDigit(c) == \E d \in 1 .. 10 : DigitChars[d] = c

DigitVal(c) == (CHOOSE d \in 1 .. 10 : DigitChars[d] = c) - 1

\* strings.TrimRight(u, "/")
RECURSIVE TrimRightSlash(_)
TrimRightSlash(u) ==
    IF u # <<>> /\ u[Len(u)] = "/"
    THEN TrimRightSlash(SubSeq(u, 1, Len(u) - 1))
    ELSE u

\* parts[len(parts)-1] of strings.Split(u, "/"): what follows the last "/"
RECURSIVE LastPart(_)
LastPart(u) ==
    IF u = <<>> \/ u[Len(u)] = "/"
    THEN <<>>
    ELSE Append(LastPart(SubSeq(u, 1, Len(u) - 1)), u[Len(u)])

\* strconv.ParseUint(s, 10, 64): digits only, at least one, value below 2^64
RECURSIVE ParseDigits(_, _)
ParseDigits(s, n) ==
    IF s = <<>>
    THEN [err |-> FALSE, v |-> n]
    ELSE LET m == MulC(n, 10, DigitVal(Head(s)))
         IN  IF m.c # 0
             THEN [err |-> TRUE, v |-> WMax]
             ELSE ParseDigits(Tail(s), m.v)

ParseUint(s) ==
    IF s = <<>> \/ \E i \in 1 .. Len(s) : ~IsDigit(s[i])
    THEN [err |-> TRUE, v |-> W0]
    ELSE ParseDigits(s, W0)

\* the decimal digits fmt's %d writes for an unsigned word
RECURSIVE FormatDigits(_)
FormatDigits(x) ==
    IF IsZero(x)
    THEN <<>>
    ELSE LET d == DivR(x, 10, 0)
         IN  Append(FormatDigits(d.q), DigitChars[d.r + 1])

FormatUint(x) == IF IsZero(x) THEN <<"0">> ELSE FormatDigits(x)

(***************************************************************************)
(* What an outbound call returns.  http.DefaultClient.Do either fails      *)
(* (NetErr) or hands back a body; the status code is never read.  A body   *)
(* is Garbage (not JSON) or an object whose fields are Absent (missing or  *)
(* null), Mismatch (a JSON value of a type the Go field cannot hold) or a  *)
(* value.                                                                  *)
(***************************************************************************)
NoResp == [t |-> "none"]

NetErr == [t |-> "neterr"]

Garbage == [t |-> "garbage"]

Absent == [t |-> "absent"]

Mismatch == [t |-> "mismatch"]

Str(s) == [t |-> "str", v |-> s]

IntVal(w) == [t |-> "int", v |-> w]

List(q) == [t |-> "list", v |-> q]

\* the Go value json leaves in a string field
GoString(f, zero) == IF f.t = "str" THEN f.v ELSE zero

\* sequences over S of length at most n
SeqUpTo(S, n) == UNION {[1 .. k -> S] : k \in 0 .. n}


VARIABLES
    pc,       \* the statement the request (or the function under study) is at
    sum,      \* the first 8 bytes of hasher.Sum(nil), the digest of the name
    id,       \* the id parameter of pokemonName, pokemonStats, pokemonEvolutions
    params,   \* index: indexTemplateParams
    status,   \* index: the status the response carries ("none" before any)
    page,     \* index: what ExecuteTemplate rendered
    calls,    \* every request handed to http.DefaultClient.Do, in order
    resp,     \* the first response of the running function
    resp2,    \* the second response of the running function
    node,     \* pokemonEvolutions: the node the walk is at
    out,      \* pokemonEvolutions: the evolutions gathered so far
    retName,  \* what pokemonName returned: [val, err]
    retStats, \* what pokemonStats returned: [val, err]
    retEvs,   \* what pokemonEvolutions returned: [val, err]
    log       \* index: the lines written to the log

vars == <<pc, sum, id, params, status, page, calls, resp, resp2, node, out,
          retName, retStats, retEvs, log>>

(***************************************************************************)
(* pokemonID                                                               *)
(***************************************************************************)
\* binary.BigEndian.Uint64 of eight bytes
BigEndianUint64(b) ==
    <<b[1] * 256 + b[2], b[3] * 256 + b[4], b[5] * 256 + b[6], b[7] * 256 + b[8]>>

\* a bug: the remainder itself, never shifted into 1..m
pokemonID_NoShift(digest, m) == U64Mod(BigEndianUint64(digest), m)

pokemonID(digest, m) == U64AddSmall(U64Mod(BigEndianUint64(digest), m), 1)

\* the m index passes to pokemonID
MaxPokemonID == 151

(***************************************************************************)
(* pokemonName                                                             *)
(***************************************************************************)
\* json.NewDecoder(resp.Body).Decode(&speciesData), speciesData.Names
DecodeNames(body) ==
    IF body.t = "garbage" \/ body.names.t = "mismatch"
    THEN [err |-> TRUE, Names |-> <<>>]
    ELSE IF body.names.t = "absent"
    THEN [err |-> FALSE, Names |-> <<>>]
    ELSE LET es == body.names.v
         IN  IF \E i \in 1 .. Len(es) :
                    \/ es[i].t = "mismatch"
                    \/ es[i].name.t = "mismatch"
                    \/ es[i].language.t = "mismatch"
             THEN [err |-> TRUE, Names |-> <<>>]
             ELSE [err   |-> FALSE,
                   Names |-> [i \in 1 .. Len(es) |->
                                [Name     |-> GoString(es[i].name, ""),
                                 Language |-> GoString(es[i].language, "")]]]

\* a bug: the last French entry instead of the first
FrenchIndex_Last(Names) ==
    IF \E i \in 1 .. Len(Names) : Names[i].Language = "fr"
    THEN CHOOSE i \in 1 .. Len(Names) :
            /\ Names[i].Language = "fr"
            /\ \A j \in (i + 1) .. Len(Names) : Names[j].Language # "fr"
    ELSE 0

\* the loop over speciesData.Names: the index of the entry it returns, or 0
FrenchIndex(Names) ==
    IF \E i \in 1 .. Len(Names) : Names[i].Language = "fr"
    THEN CHOOSE i \in 1 .. Len(Names) :
            /\ Names[i].Language = "fr"
            /\ \A j \in 1 .. (i - 1) : Names[j].Language # "fr"
    ELSE 0

\* json.NewDecoder(resp2.Body).Decode(&pokemon)
DecodePokemonName(body) ==
    IF body.t = "garbage" \/ body.name.t = "mismatch"
    THEN [err |-> TRUE, Name |-> ""]
    ELSE [err |-> FALSE, Name |-> GoString(body.name, "")]

\* a request handed to http.DefaultClient.Do: the function that built it, the
\* resource and the id formatted into its URL, or the URL itself
SpeciesCall(by, i) == [by |-> by, res |-> "pokemon-species", id |-> i]

PokemonCall(by, i) == [by |-> by, res |-> "pokemon", id |-> i]

ChainCall(by, u) == [by |-> by, res |-> "evolution-chain", url |-> u]

\* the species round trip, the decode and the search for the French name
NameSpecies(Bodies) ==
    /\ pc = "pokemonName"
    /\ calls' = Append(calls, SpeciesCall("pokemonName", id))
    /\ \E r \in {NetErr} \cup Bodies :
        /\ resp' = r
        /\ IF r = NetErr
           THEN pc' = "name_ret" /\ retName' = [val |-> "", err |-> TRUE]
           ELSE LET d == DecodeNames(r)
                    k == FrenchIndex(d.Names)
                IN  IF d.err
                    THEN pc' = "name_ret" /\ retName' = [val |-> "", err |-> TRUE]
                    ELSE IF k # 0
                    THEN /\ pc' = "name_ret"
                         /\ retName' = [val |-> d.Names[k].Name, err |-> FALSE]
                    ELSE pc' = "name_fallback" /\ retName' = retName
    /\ UNCHANGED <<sum, id, params, status, page, resp2, node, out, retStats, retEvs, log>>

\* the fallback round trip to the pokemon endpoint and its decode
NameFallback(Bodies) ==
    /\ pc = "name_fallback"
    /\ calls' = Append(calls, PokemonCall("pokemonName", id))
    /\ \E r \in {NetErr} \cup Bodies :
        /\ resp2' = r
        /\ IF r = NetErr
           THEN retName' = [val |-> "", err |-> TRUE]
           ELSE LET d == DecodePokemonName(r)
                IN  retName' = [val |-> d.Name, err |-> d.err]
    /\ pc' = "name_ret"
    /\ UNCHANGED <<sum, id, params, status, page, resp, node, out, retStats, retEvs, log>>

(***************************************************************************)
(* pokemonStats                                                            *)
(***************************************************************************)
\* json.NewDecoder(resp.Body).Decode(&data), data.Stats
DecodeStats(body) ==
    IF body.t = "garbage" \/ body.stats.t = "mismatch"
    THEN [err |-> TRUE, Stats |-> <<>>]
    ELSE IF body.stats.t = "absent"
    THEN [err |-> FALSE, Stats |-> <<>>]
    ELSE LET es == body.stats.v
         IN  IF \E i \in 1 .. Len(es) :
                    \/ es[i].t = "mismatch"
                    \/ es[i].base_stat.t = "mismatch"
                    \/ es[i].stat.t = "mismatch"
             THEN [err |-> TRUE, Stats |-> <<>>]
             ELSE [err   |-> FALSE,
                   Stats |-> [i \in 1 .. Len(es) |->
                                [Base |-> IF es[i].base_stat.t = "int"
                                          THEN es[i].base_stat.v
                                          ELSE W0,
                                 Name |-> GoString(es[i].stat, "")]]]

\* a bug: the guard dropped, so a negative base gives a negative percent
Percent_NoGuard(Base) == IntDivSmall(IntMulSmall(Base, 100), 255)

\* a bug: rounding to the nearest instead of truncating
Percent_Rounded(Base) ==
    IF IsPositive(Base)
    THEN IntDivSmall(U64AddSmall(IntMulSmall(Base, 100), 127), 255)
    ELSE W0

\* percent := 0; if s.Base > 0 { percent = s.Base * 100 / 255 }
Percent(Base) ==
    IF IsPositive(Base)
    THEN IntDivSmall(IntMulSmall(Base, 100), 255)
    ELSE W0

\* the loop over data.Stats
StatsOf(Stats) ==
    [i \in 1 .. Len(Stats) |->
        [Name |-> Stats[i].Name, Base |-> Stats[i].Base,
         Percent |-> Percent(Stats[i].Base)]]

\* the round trip to the pokemon endpoint, the decode and the loop
StatsFetch(Bodies) ==
    /\ pc = "pokemonStats"
    /\ calls' = Append(calls, PokemonCall("pokemonStats", id))
    /\ \E r \in {NetErr} \cup Bodies :
        /\ resp' = r
        /\ IF r = NetErr
           THEN retStats' = [val |-> <<>>, err |-> TRUE]
           ELSE LET d == DecodeStats(r)
                IN  IF d.err
                    THEN retStats' = [val |-> <<>>, err |-> TRUE]
                    ELSE retStats' = [val |-> StatsOf(d.Stats), err |-> FALSE]
    /\ pc' = "stats_ret"
    /\ UNCHANGED <<sum, id, params, status, page, resp2, node, out, retName, retEvs, log>>

(***************************************************************************)
(* radarPath.  A point is kept in polar form: vertex i of n at the radius  *)
(* of its percent; the cosine, the sine and the %.2f formatting are not    *)
(* evaluated.  The empty sequence is the empty string.                     *)
(***************************************************************************)
radarPath(stats) ==
    [i \in 1 .. Len(stats) |->
        [i |-> i - 1, n |-> Len(stats), Percent |-> stats[i].Percent]]


(***************************************************************************)
(* pokemonEvolutions                                                       *)
(***************************************************************************)
\* json.NewDecoder(resp.Body).Decode(&speciesData), EvolutionChain.URL
DecodeChainURL(body) ==
    IF body.t = "garbage" \/ body.evolution_chain.t = "mismatch"
    THEN [err |-> TRUE, URL |-> ""]
    ELSE [err |-> FALSE, URL |-> GoString(body.evolution_chain, "")]

\* a URL http.NewRequest refuses (url.Parse fails on it)
InvalidURL == "%zz"

\* the node a missing chain leaves in chainData
ZeroNode == [Species |-> [Name |-> "", URL |-> <<>>], EvolvesTo |-> <<>>]

\* Decoding a lineage entry into the walk's node type: its own species and
\* its children typed (each must be an object), their children left raw.
TypeNode(raw) ==
    IF raw.t = "absent"
    THEN [err |-> FALSE, node |-> ZeroNode]
    ELSE IF raw.t = "mismatch" \/ \E i \in 1 .. Len(raw.kids) : raw.kids[i].t = "mismatch"
    THEN [err |-> TRUE, node |-> ZeroNode]
    ELSE [err  |-> FALSE,
          node |-> [Species   |-> [Name |-> raw.name, URL |-> raw.url],
                    EvolvesTo |-> raw.kids]]

\* json.NewDecoder(resp2.Body).Decode(&chainData), chainData.Chain
DecodeChain(body) ==
    IF body.t = "garbage"
    THEN [err |-> TRUE, node |-> ZeroNode]
    ELSE TypeNode(body.chain)

SpritePrefix ==
    "https://raw.githubusercontent.com/PokeAPI/sprites/master/sprites/pokemon/other/official-artwork/"

SpriteURL(spid) == <<SpritePrefix>> \o FormatUint(spid) \o <<".png">>

\* a bug: the trailing "/" left on, so the last part is empty
SpeciesID_NoTrim(URL) ==
    LET v == ParseUint(LastPart(URL))
    IN  IF v.err THEN W0 ELSE v.v

\* the id the walk reads off a species URL
SpeciesID(URL) ==
    LET v == ParseUint(LastPart(TrimRightSlash(URL)))
    IN  IF v.err THEN W0 ELSE v.v

\* the Evolution the walk appends for node.Species
EvolutionOf(sp) ==
    LET spid == SpeciesID(sp.URL)
    IN  [Name  |-> sp.Name,
         ID    |-> spid,
         Image |-> IF ~IsZero(spid) THEN SpriteURL(spid) ELSE <<>>]

\* a bug: the last child followed instead of the first
NextNode_LastChild(n) == TypeNode(n.EvolvesTo[Len(n.EvolvesTo)])

\* a bug: node never reassigned, so every turn reads the same node
NextNode_Stay(n) == [err |-> FALSE, node |-> n]

\* json.Marshal(node.EvolvesTo[0]) and json.Unmarshal(b, &next)
NextNode(n) == TypeNode(n.EvolvesTo[1])

\* the species round trip and its decode
EvoSpecies(Bodies) ==
    /\ pc = "pokemonEvolutions"
    /\ calls' = Append(calls, SpeciesCall("pokemonEvolutions", id))
    /\ \E r \in {NetErr} \cup Bodies :
        /\ resp' = r
        /\ IF r = NetErr
           THEN pc' = "evo_ret" /\ retEvs' = [val |-> <<>>, err |-> TRUE]
           ELSE LET d == DecodeChainURL(r)
                IN  IF d.err \/ d.URL = InvalidURL
                    THEN pc' = "evo_ret" /\ retEvs' = [val |-> <<>>, err |-> TRUE]
                    ELSE pc' = "evo_chain" /\ retEvs' = retEvs
    /\ UNCHANGED <<sum, id, params, status, page, resp2, node, out, retName, retStats, log>>

\* the chain round trip and its decode; a URL without a scheme never connects
EvoChain(Bodies) ==
    /\ pc = "evo_chain"
    /\ LET url == DecodeChainURL(resp).URL
       IN  /\ calls' = Append(calls, ChainCall("pokemonEvolutions", url))
           /\ \E r \in {NetErr} \cup (IF url = "" THEN {} ELSE Bodies) :
               /\ resp2' = r
               /\ IF r = NetErr
                  THEN /\ pc' = "evo_ret"
                       /\ retEvs' = [val |-> <<>>, err |-> TRUE]
                       /\ UNCHANGED <<node, out>>
                  ELSE LET d == DecodeChain(r)
                       IN  IF d.err
                           THEN /\ pc' = "evo_ret"
                                /\ retEvs' = [val |-> <<>>, err |-> TRUE]
                                /\ UNCHANGED <<node, out>>
                           ELSE /\ pc' = "evo_walk"
                                /\ node' = d.node
                                /\ out' = <<>>
                                /\ retEvs' = retEvs
    /\ UNCHANGED <<sum, id, params, status, page, resp, retName, retStats, log>>

\* one turn of the for loop
EvoWalk ==
    /\ pc = "evo_walk"
    /\ out' = Append(out, EvolutionOf(node.Species))
    /\ IF Len(node.EvolvesTo) = 0 \/ NextNode(node).err
       THEN /\ pc' = "evo_ret"
            /\ retEvs' = [val |-> out', err |-> FALSE]
            /\ node' = node
       ELSE /\ pc' = "evo_walk"
            /\ node' = NextNode(node).node
            /\ retEvs' = retEvs
    /\ UNCHANGED <<sum, id, params, status, page, calls, resp, resp2, retName, retStats, log>>

(***************************************************************************)
(* index                                                                   *)
(***************************************************************************)
NoPage == [t |-> "none"]

ZeroParams ==
    [PokemonID |-> W0, PokemonName |-> "", Stats |-> <<>>,
     RadarPoints |-> <<>>, Evolutions |-> <<>>]

NoRet == [val |-> <<>>, err |-> FALSE]

\* template.ParseFS, then params with PokemonID, then the call of pokemonName
IndexBegin ==
    /\ pc = "index"
    /\ \E parsed \in BOOLEAN :
        IF parsed
        THEN /\ params' = [params EXCEPT !.PokemonID = pokemonID(sum, W(MaxPokemonID))]
             /\ id' = pokemonID(sum, W(MaxPokemonID))
             /\ pc' = "pokemonName"
             /\ UNCHANGED <<status, log>>
        ELSE /\ status' = "500"
             /\ log' = Append(log, "[ERR] failed to parse embed fs")
             /\ pc' = "done"
             /\ UNCHANGED <<params, id>>
    /\ UNCHANGED <<sum, page, calls, resp, resp2, node, out, retName, retStats, retEvs>>

\* pokemonName returned: an error ends the request, else pokemonStats is called
IndexAfterName ==
    /\ pc = "name_ret"
    /\ params' = [params EXCEPT !.PokemonName = retName.val]
    /\ IF retName.err
       THEN /\ status' = "500"
            /\ log' = Append(log, "[ERR] failed to get pokemon name")
            /\ pc' = "done"
       ELSE /\ pc' = "pokemonStats"
            /\ UNCHANGED <<status, log>>
    /\ resp' = NoResp
    /\ resp2' = NoResp
    /\ UNCHANGED <<sum, id, page, calls, node, out, retName, retStats, retEvs>>

\* a bug: a failed stats fetch ends the request like a failed name fetch
IndexAfterStats_Fatal ==
    /\ pc = "stats_ret"
    /\ IF retStats.err
       THEN /\ status' = "500"
            /\ log' = Append(log, "[WARN] failed to fetch pokemon stats")
            /\ pc' = "done"
            /\ params' = params
       ELSE /\ params' = [params EXCEPT !.Stats = retStats.val,
                                        !.RadarPoints = radarPath(retStats.val)]
            /\ pc' = "pokemonEvolutions"
            /\ UNCHANGED <<status, log>>
    /\ resp' = NoResp
    /\ resp2' = NoResp
    /\ UNCHANGED <<sum, id, page, calls, node, out, retName, retStats, retEvs>>

\* pokemonStats returned: params.Stats, params.RadarPoints, then
\* pokemonEvolutions is called
IndexAfterStats ==
    /\ pc = "stats_ret"
    /\ LET stats == IF retStats.err THEN <<>> ELSE retStats.val
       IN  params' = [params EXCEPT !.Stats = stats,
                                    !.RadarPoints = radarPath(stats)]
    /\ log' = IF retStats.err
              THEN Append(log, "[WARN] failed to fetch pokemon stats")
              ELSE log
    /\ pc' = "pokemonEvolutions"
    /\ resp' = NoResp
    /\ resp2' = NoResp
    /\ UNCHANGED <<sum, id, status, page, calls, node, out, retName, retStats, retEvs>>

\* pokemonEvolutions returned: params.Evolutions
IndexAfterEvolutions ==
    /\ pc = "evo_ret"
    /\ params' = [params EXCEPT
                    !.Evolutions = IF retEvs.err THEN <<>> ELSE retEvs.val]
    /\ log' = IF retEvs.err
              THEN Append(log, "[WARN] failed to fetch evolution chain")
              ELSE log
    /\ pc' = "render"
    /\ resp' = NoResp
    /\ resp2' = NoResp
    /\ node' = ZeroNode
    /\ out' = <<>>
    /\ UNCHANGED <<sum, id, status, page, calls, retName, retStats, retEvs>>

\* tmpl.ExecuteTemplate: a failure may come before or after the first byte
\* of the page, so the status written is either
IndexRender ==
    /\ pc = "render"
    /\ \E executed \in BOOLEAN :
        IF executed
        THEN /\ page' = params
             /\ status' = "200"
             /\ log' = Append(log, "generated page")
        ELSE /\ page' = page
             /\ status' \in {"200", "500"}
             /\ log' = Append(log, "[ERR] failed to execute index template")
    /\ pc' = "done"
    /\ UNCHANGED <<sum, id, params, calls, resp, resp2, node, out, retName, retStats, retEvs>>

(***************************************************************************)
(* The inputs: digests, ids and response bodies.                           *)
(***************************************************************************)
\* the longest names list, stats list and lineage path drawn
MaxNames == 2

MaxStats == 2

MaxDepth == 3

\* the first 8 digest bytes of "", "pikachu", "a" and "abc", and the extremes
Digests ==
    { <<218, 57, 163, 238, 94, 107, 75, 13>>,
      <<228, 64, 152, 34, 186, 29, 149, 190>>,
      <<134, 247, 228, 55, 250, 165, 167, 252>>,
      <<169, 153, 62, 54, 71, 6, 129, 106>>,
      <<0, 0, 0, 0, 0, 0, 0, 0>>,
      <<0, 0, 0, 0, 0, 0, 0, 150>>,
      <<0, 0, 0, 0, 0, 0, 0, 151>>,
      <<255, 255, 255, 255, 255, 255, 255, 255>> }

\* the range sizes pokemonID is tried with
RangeSizes ==
    { W(1), W(2), W(MaxPokemonID), <<0, 1, 0, 0>>, <<LimbBase \div 2, 0, 0, 0>>, WMax }

IDs == {W(1), W(MaxPokemonID)}

SpeciesBody(names, url) ==
    [t |-> "obj", names |-> names, evolution_chain |-> url]

NameEntry(name, language) == [t |-> "obj", name |-> name, language |-> language]

NameEntries ==
    {Mismatch} \cup
    { NameEntry(n, l) : n \in {Absent, Str("Bulbizarre"), Str("Herbizarre")},
                        l \in {Absent, Str("fr"), Str("en")} }

ChainURL == "https://pokeapi.co/api/v2/evolution-chain/1/"

NameSpeciesBodies ==
    {Garbage} \cup
    { SpeciesBody(n, Str(ChainURL)) :
        n \in {Absent, Mismatch} \cup {List(q) : q \in SeqUpTo(NameEntries, MaxNames)} }

PokemonBody(name, stats) == [t |-> "obj", name |-> name, stats |-> stats]

NamePokemonBodies ==
    {Garbage} \cup
    { PokemonBody(n, Absent) : n \in {Absent, Mismatch, Str("bulbasaur")} }

MaxInt == <<LimbBase \div 2 - 1, LimbBase - 1, LimbBase - 1, LimbBase - 1>>

MinInt == <<LimbBase \div 2, 0, 0, 0>>

\* the largest int whose product by 100 does not wrap
MaxUnwrapped == DivR(MaxInt, 100, 0).q

Bases ==
    { W0, W(1), W(2), W(100), W(255), W(257), W(258), WNeg(1), WNeg(5),
      MaxUnwrapped, U64AddSmall(MaxUnwrapped, 1), MaxInt, MinInt }

StatEntry(base, name) == [t |-> "obj", base_stat |-> base, stat |-> name]

StatEntries ==
    {Mismatch} \cup
    { StatEntry(b, n) : b \in {Absent, Mismatch} \cup {IntVal(w) : w \in Bases},
                        n \in {Absent, Str("hp"), Str("attack")} }

StatsBodies ==
    {Garbage} \cup
    { PokemonBody(Str("bulbasaur"), st) :
        st \in {Absent, Mismatch} \cup {List(q) : q \in SeqUpTo(StatEntries, MaxStats)} }

SpeciesURLPrefix ==
    <<"https:", "/", "/", "pokeapi.co", "/", "api", "/", "v2", "/", "pokemon-species", "/">>

SpeciesURL(tail) == SpeciesURLPrefix \o tail

TwoTo64 ==
    << "1", "8", "4", "4", "6", "7", "4", "4", "0", "7",
       "3", "7", "0", "9", "5", "5", "1", "6", "1", "6" >>

Species(name, url) == [name |-> name, url |-> url]

InnerSpecies ==
    { Species("bulbasaur", SpeciesURL(<<"1", "/">>)),
      Species("missingno", SpeciesURL(<<"x", "/">>)) }

RootSpecies ==
    InnerSpecies \cup
    { Species("ivysaur", SpeciesURL(<<"2">>)),
      Species("venusaur", SpeciesURL(<<"0", "0", "3", "/", "/">>)),
      Species("zero", SpeciesURL(<<"0", "/">>)),
      Species("huge", SpeciesURL(TwoTo64 \o <<"/">>)),
      Species("signed", SpeciesURL(<<"+", "4", "/">>)),
      Species("", <<>>) }

RawNode(sp, kids) == [t |-> "node", name |-> sp.name, url |-> sp.url, kids |-> kids]

Leaf == RawNode(Species("ivysaur", SpeciesURL(<<"2", "/">>)), <<>>)

\* what stands beside a first child: junk, a leaf, a node with a leaf or with junk
Siblings == {Mismatch, Leaf, RawNode(Species("eevee", <<>>), <<Leaf>>),
             RawNode(Species("eevee", <<>>), <<Mismatch>>)}

KidLists(sub) ==
    {<<>>} \cup {<<c>> : c \in sub} \cup {<<c, x>> : c \in sub, x \in Siblings}

\* lineage entries whose first-child path has at most d nodes
RECURSIVE Entries(_, _)
Entries(d, species) ==
    IF d = 1
    THEN {RawNode(sp, <<>>) : sp \in species}
    ELSE {RawNode(sp, k) :
            sp \in species,
            k \in KidLists(Entries(d - 1, InnerSpecies) \cup {Mismatch})}

ChainBody(chain) == [t |-> "obj", chain |-> chain]

ChainBodies ==
    {Garbage, ChainBody(Absent), ChainBody(Mismatch)} \cup
    {ChainBody(c) : c \in Entries(MaxDepth, RootSpecies)}

EvoSpeciesBodies ==
    {Garbage} \cup
    { SpeciesBody(Absent, u) :
        u \in {Absent, Mismatch, Str(""), Str(InvalidURL), Str(ChainURL)} }

(***************************************************************************)
(* The specifications: one per function, each from the function's entry,   *)
(* and the whole request.                                                  *)
(***************************************************************************)
InitAt(p) ==
    /\ pc = p
    /\ params = ZeroParams
    /\ status = "none"
    /\ page = NoPage
    /\ calls = <<>>
    /\ resp = NoResp
    /\ resp2 = NoResp
    /\ node = ZeroNode
    /\ out = <<>>
    /\ retName = NoRet
    /\ retStats = NoRet
    /\ retEvs = NoRet
    /\ log = <<>>

NoDigest == <<0, 0, 0, 0, 0, 0, 0, 0>>

InitName == InitAt("pokemonName") /\ sum = NoDigest /\ id \in IDs

NextName ==
    \/ NameSpecies(NameSpeciesBodies)
    \/ NameFallback(NamePokemonBodies)

SpecName == InitName /\ [][NextName]_vars

InitStats == InitAt("pokemonStats") /\ sum = NoDigest /\ id \in IDs

NextStats == StatsFetch(StatsBodies)

SpecStats == InitStats /\ [][NextStats]_vars

InitEvo ==
    InitAt("pokemonEvolutions") /\ sum = NoDigest /\ id \in IDs

NextEvo ==
    \/ EvoSpecies(EvoSpeciesBodies)
    \/ EvoChain(ChainBodies)
    \/ EvoWalk

\* pokemonEvolutions alone, for every id and every pair of responses
SpecEvo == InitEvo /\ [][NextEvo]_vars


\* the bodies the whole request is run against
IndexNameSpeciesBodies ==
    { Garbage,
      SpeciesBody(List(<<NameEntry(Str("Bulbizarre"), Str("fr"))>>), Str(ChainURL)),
      SpeciesBody(List(<<NameEntry(Str("Bulbasaur"), Str("en"))>>), Str(ChainURL)) }

IndexNamePokemonBodies == {Garbage, PokemonBody(Str("bulbasaur"), Absent)}

IndexStatsBodies ==
    { Garbage,
      PokemonBody(Str("bulbasaur"), Absent),
      PokemonBody(Str("bulbasaur"),
                  List(<<StatEntry(IntVal(W(45)), Str("hp")),
                         StatEntry(IntVal(W(49)), Str("attack"))>>)) }

IndexEvoSpeciesBodies == {Garbage, SpeciesBody(Absent, Str(ChainURL))}

IndexChainBodies ==
    {Garbage} \cup {ChainBody(c) : c \in Entries(2, InnerSpecies)}

Init == InitAt("index") /\ sum \in Digests /\ id = W0

Next ==
    \/ IndexBegin
    \/ NameSpecies(IndexNameSpeciesBodies)
    \/ NameFallback(IndexNamePokemonBodies)
    \/ IndexAfterName
    \/ StatsFetch(IndexStatsBodies)
    \/ IndexAfterStats
    \/ EvoSpecies(IndexEvoSpeciesBodies)
    \/ EvoChain(IndexChainBodies)
    \/ EvoWalk
    \/ IndexAfterEvolutions
    \/ IndexRender

Spec == Init /\ [][Next]_vars


(***************************************************************************)
(* The properties.                                                         *)
(***************************************************************************)
\* 1 <= r <= m, unsigned
InRange(r, m) == Leq(W(1), r) /\ Leq(r, m)

\* the value of the bytes b modulo a small m, byte by byte
RECURSIVE BytesMod(_, _, _)
BytesMod(b, m, acc) ==
    IF b = <<>>
    THEN acc
    ELSE BytesMod(Tail(b), m, (acc * 256 + Head(b)) % m)

IsSmall(m) == m[1] = 0 /\ m[2] = 0 /\ m[3] = 0 /\ m[4] < LimbBase - 1

IdCalls == {i \in 1 .. Len(calls) : calls[i].res \in {"pokemon-species", "pokemon"}}

\* C1: for every digest and every range size m >= 1, pokemonID returns
\* (h mod m) + 1, a value in 1..m; the id index computes is in 1..151 and
\* is the id of every species and pokemon request it sends.
C1_IdentifierInRange ==
    /\ pc = "pokemonName" =>
        \A m \in RangeSizes :
            /\ InRange(pokemonID(sum, m), m)
            /\ IsSmall(m) => pokemonID(sum, m) = W(BytesMod(sum, m[4], 0) + 1)
    /\ pc = "pokemonName" => params.PokemonID = pokemonID(sum, W(MaxPokemonID))
    /\ Len(calls) > 0 => InRange(params.PokemonID, W(MaxPokemonID))
    /\ \A i \in IdCalls : calls[i].id = params.PokemonID
    /\ page # NoPage => InRange(page.PokemonID, W(MaxPokemonID))

\* a request for the name "" (id 122) that rendered its page after all fetches
C1_Witness ==
    /\ pc = "done"
    /\ page # NoPage
    /\ page.PokemonID = W(122)
    /\ Cardinality(IdCalls) >= 3

Logged(line) == \E i \in 1 .. Len(log) : log[i] = line

CallsBy(f) == {i \in 1 .. Len(calls) : calls[i].by = f}

\* C2: with the template parsed and executed, the request ends in a server
\* error without a page exactly when pokemonName failed, and then neither
\* pokemonStats nor pokemonEvolutions was called; otherwise the page is
\* rendered, both other fetches were made, a failed stats fetch empties
\* the stats and the radar points only, a failed lineage fetch the
\* evolutions only, and each section holds what its own fetch returned.
C2_OnlyNameFetchIsFatal ==
    ( /\ pc = "done"
      /\ ~Logged("[ERR] failed to parse embed fs")
      /\ ~Logged("[ERR] failed to execute index template") ) =>
        /\ (status = "500" /\ page = NoPage) <=> retName.err
        /\ retName.err =>
            /\ CallsBy("pokemonStats") = {}
            /\ CallsBy("pokemonEvolutions") = {}
        /\ ~retName.err =>
            /\ status = "200"
            /\ page # NoPage
            /\ Cardinality(CallsBy("pokemonStats")) = 1
            /\ CallsBy("pokemonEvolutions") # {}
            /\ page.PokemonName = retName.val
            /\ page.Stats = (IF retStats.err THEN <<>> ELSE retStats.val)
            /\ page.RadarPoints =
                 (IF retStats.err THEN <<>> ELSE radarPath(retStats.val))
            /\ page.Evolutions = (IF retEvs.err THEN <<>> ELSE retEvs.val)

\* a page rendered after the stats fetch failed, with its evolutions
C2_Witness ==
    /\ pc = "done"
    /\ status = "200"
    /\ page # NoPage
    /\ retStats.err
    /\ ~retEvs.err
    /\ page.Stats = <<>>
    /\ page.RadarPoints = <<>>
    /\ Len(page.Evolutions) = 2


\* the names list as the species response carries it
RawNames(body) ==
    IF body.t = "obj" /\ body.names.t = "list" THEN body.names.v ELSE <<>>

IsFrench(e) == e.t = "obj" /\ e.language = Str("fr")

HasFrench(body) == \E i \in 1 .. Len(RawNames(body)) : IsFrench(RawNames(body)[i])

FirstFrench(body) ==
    LET es == RawNames(body)
    IN  es[CHOOSE i \in 1 .. Len(es) :
              IsFrench(es[i]) /\ \A j \in 1 .. (i - 1) : ~IsFrench(es[j])]

\* a response arrived and decoded without error
SpeciesRead == resp.t \in {"obj", "garbage"} /\ ~DecodeNames(resp).err

PokemonRead == resp2.t \in {"obj", "garbage"} /\ ~DecodePokemonName(resp2).err

\* C7: pokemonName calls the species endpoint first; with a French entry in
\* the names it read it returns the name of the first one after that single
\* call; only without one does it call the pokemon endpoint, once, and
\* return its name field; never more than two calls, never the same twice.
C7_SpeciesThenFallback ==
    /\ Len(calls) <= 2
    /\ Len(calls) >= 1 => calls[1] = SpeciesCall("pokemonName", id)
    /\ Len(calls) = 2 =>
        /\ calls[2] = PokemonCall("pokemonName", id)
        /\ calls[2] # calls[1]
        /\ SpeciesRead
        /\ ~HasFrench(resp)
    /\ pc = "name_fallback" => Len(calls) = 1 /\ SpeciesRead /\ ~HasFrench(resp)
    /\ (pc = "name_ret" /\ SpeciesRead /\ HasFrench(resp)) =>
        /\ Len(calls) = 1
        /\ ~retName.err
        /\ retName.val = GoString(FirstFrench(resp).name, "")
    /\ (pc = "name_ret" /\ SpeciesRead /\ ~HasFrench(resp)) =>
        /\ Len(calls) = 2
        /\ PokemonRead => ~retName.err /\ retName.val = GoString(resp2.name, "")

\* two French entries with different names: the first one is returned
C7_Witness ==
    /\ pc = "name_ret"
    /\ SpeciesRead
    /\ Len(RawNames(resp)) = 2
    /\ IsFrench(RawNames(resp)[1])
    /\ IsFrench(RawNames(resp)[2])
    /\ RawNames(resp)[1].name = Str("Herbizarre")
    /\ RawNames(resp)[2].name = Str("Bulbizarre")
    /\ retName = [val |-> "Herbizarre", err |-> FALSE]
    /\ Len(calls) = 1

\* a field pokemonName expects is missing from a body it read
NamesFieldMissing(body) ==
    /\ body.t = "obj"
    /\ \/ body.names.t = "absent"
       \/ \E i \in 1 .. Len(RawNames(body)) :
            /\ RawNames(body)[i].t = "obj"
            /\ \/ RawNames(body)[i].name.t = "absent"
               \/ RawNames(body)[i].language.t = "absent"

NameFieldMissing(body) == body.t = "obj" /\ body.name.t = "absent"

\* the names the responses carry
NamesPresent ==
    {RawNames(resp)[i].name.v :
        i \in {j \in 1 .. Len(RawNames(resp)) :
                 RawNames(resp)[j].t = "obj" /\ RawNames(resp)[j].name.t = "str"}}
    \cup (IF resp2.t = "obj" /\ resp2.name.t = "str" THEN {resp2.name.v} ELSE {})

\* C8: pokemonName returns an error whenever a call failed or a body it read
\* was not of the expected shape, a missing expected field included, and a
\* name it returns without error is a name a response carried.
C8_FailsOnUnexpectedShape ==
    pc = "name_ret" =>
        /\ ( \/ resp = NetErr
             \/ resp2 = NetErr
             \/ resp.t \in {"obj", "garbage"} /\ DecodeNames(resp).err
             \/ resp2.t \in {"obj", "garbage"} /\ DecodePokemonName(resp2).err
             \/ NamesFieldMissing(resp)
             \/ NameFieldMissing(resp2) ) => retName.err
        /\ ~retName.err => retName.val \in NamesPresent


\* a <= b for two words read as Go ints
IntLeq(a, b) ==
    IF IsNegative(a) # IsNegative(b) THEN IsNegative(a) ELSE Leq(a, b)

PercentInRange(p) == IntLeq(W0, p) /\ IntLeq(p, W(100))

\* floor(base * 100 / 255) for base > 0, on five limbs: nothing wraps
ExactPercent(base) == DivR(MulC(<<0>> \o base, 100, 0).v, 255, 0).q

\* the stats list as the pokemon response carries it
RawStats(body) ==
    IF body.t = "obj" /\ body.stats.t = "list" THEN body.stats.v ELSE <<>>

StatsRead == resp.t \in {"obj", "garbage"} /\ ~DecodeStats(resp).err

RawBase(e) == IF e.base_stat.t = "int" THEN e.base_stat.v ELSE W0

StatsCopied ==
    /\ ~retStats.err
    /\ Len(retStats.val) = Len(RawStats(resp))
    /\ \A i \in 1 .. Len(retStats.val) :
        /\ retStats.val[i].Name = GoString(RawStats(resp)[i].stat, "")
        /\ retStats.val[i].Base = RawBase(RawStats(resp)[i])

\* C6, as claimed: Percent is 0 for base <= 0 and floor(base * 100 / 255)
\* otherwise, for every stat of the response, and the list is copied in order.
C6_PercentIsFloor ==
    (pc = "stats_ret" /\ StatsRead) =>
        /\ StatsCopied
        /\ \A i \in 1 .. Len(retStats.val) :
            LET st == retStats.val[i]
            IN  IF IntLeq(st.Base, W0)
                THEN st.Percent = W0
                ELSE <<0>> \o st.Percent = ExactPercent(st.Base)

\* C6, amended: Percent is 0 for base <= 0 and floor(base * 100 / 255) for
\* every base up to floor((2^63 - 1) / 100), the largest whose product by 100
\* fits the int; the list is copied in order.
C6_PercentIsFloorUnwrapped ==
    (pc = "stats_ret" /\ StatsRead) =>
        /\ StatsCopied
        /\ \A i \in 1 .. Len(retStats.val) :
            LET st == retStats.val[i]
            IN  /\ IntLeq(st.Base, W0) => st.Percent = W0
                /\ (~IntLeq(st.Base, W0) /\ IntLeq(st.Base, MaxUnwrapped)) =>
                        <<0>> \o st.Percent = ExactPercent(st.Base)
                /\ st.Base = W(255) => st.Percent = W(100)
                /\ st.Base = W(100) => st.Percent = W(39)
                /\ st.Base = WNeg(5) => st.Percent = W0

\* base 100 gives 39 and base 2 gives 0, in the order of the response
C6_Witness ==
    /\ pc = "stats_ret"
    /\ StatsRead
    /\ retStats.val =
         << [Name |-> "hp", Base |-> W(100), Percent |-> W(39)],
            [Name |-> "attack", Base |-> W(2), Percent |-> W0] >>


\* the chain response arrived as an object whose chain is a lineage entry
ChainRead == resp2.t = "obj" /\ resp2.chain.t = "node"

\* every entry the walk decodes on its way down is an object: the entry, its
\* children, and so on along the first child
RECURSIVE Decodable(_)
Decodable(raw) ==
    /\ raw.t = "node"
    /\ \A i \in 1 .. Len(raw.kids) : raw.kids[i].t = "node"
    /\ raw.kids # <<>> => Decodable(raw.kids[1])

\* the species from the root along the first-listed child to a childless entry
RECURSIVE FirstChildPath(_)
FirstChildPath(raw) ==
    IF raw.t # "node"
    THEN <<>>
    ELSE <<[Name |-> raw.name, URL |-> raw.url]>> \o
         (IF raw.kids = <<>> THEN <<>> ELSE FirstChildPath(raw.kids[1]))

EvolutionsOf(path) == [i \in 1 .. Len(path) |-> EvolutionOf(path[i])]

\* C3: for every lineage that decodes, pokemonEvolutions returns the entries
\* of the path from the chain root along the first-listed child of each node
\* to a node without children, root first; the other children and what is
\* below them change nothing.
C3_FirstChildPath ==
    /\ (pc = "evo_ret" /\ ChainRead /\ Decodable(resp2.chain)) =>
        /\ ~retEvs.err
        /\ retEvs.val = EvolutionsOf(FirstChildPath(resp2.chain))
    /\ (pc = "evo_walk" /\ Decodable(resp2.chain)) =>
        out = SubSeq(EvolutionsOf(FirstChildPath(resp2.chain)), 1, Len(out))

\* a chain of 3 whose root and whose first child each have a second child
C3_Witness ==
    /\ pc = "evo_ret"
    /\ ChainRead
    /\ Decodable(resp2.chain)
    /\ Len(resp2.chain.kids) = 2
    /\ Len(resp2.chain.kids[1].kids) = 2
    /\ Len(resp2.chain.kids[2].kids) = 1
    /\ Len(retEvs.val) = 3
    /\ retEvs.val[1].Name = "ivysaur"
    /\ retEvs.val[2].Name = "missingno"
    /\ retEvs.val[3].Name = "bulbasaur"

SetMax(S) == IF S = {} THEN 0 ELSE CHOOSE x \in S : \A y \in S : y <= x

\* the number of levels below and including a raw lineage entry
RECURSIVE RawDepth(_)
RawDepth(raw) ==
    IF raw.t # "node"
    THEN 0
    ELSE 1 + SetMax({RawDepth(raw.kids[i]) : i \in 1 .. Len(raw.kids)})

NodeDepth(n) == 1 + SetMax({RawDepth(n.EvolvesTo[i]) : i \in 1 .. Len(n.EvolvesTo)})

Repeats(evs) ==
    \E i, j \in 1 .. Len(evs) : i < j /\ evs[i].Name = evs[j].Name /\ evs[i].ID = evs[j].ID

RECURSIVE ReachesJunk(_)
ReachesJunk(raw) ==
    /\ raw.t = "node"
    /\ raw.kids # <<>>
    /\ raw.kids[1].t = "mismatch" \/ ReachesJunk(raw.kids[1])

\* C9: when the first-child path reaches an entry that cannot be decoded,
\* pokemonEvolutions returns without error the entries of the nodes before it.
C9_StopsAtUnparseableEntry ==
    (pc = "evo_ret" /\ ChainRead /\ ReachesJunk(resp2.chain)) =>
        /\ ~retEvs.err
        /\ retEvs.val = EvolutionsOf(FirstChildPath(resp2.chain))

\* what the claim says of an entry: id 0 and no image when the last part of
\* the URL does not parse, else the parsed id and the sprite URL of that id
EntryAsClaimed(e, sp) ==
    LET v == ParseUint(LastPart(TrimRightSlash(sp.URL)))
    IN  /\ e.Name = sp.Name
        /\ IF v.err
           THEN e.ID = W0 /\ e.Image = <<>>
           ELSE e.ID = v.v /\ e.Image = SpriteURL(v.v)

\* the same, with no image for a last part that parses to 0
EntryAsBuilt(e, sp) ==
    LET v == ParseUint(LastPart(TrimRightSlash(sp.URL)))
    IN  /\ e.Name = sp.Name
        /\ IF v.err
           THEN e.ID = W0 /\ e.Image = <<>>
           ELSE e.ID = v.v /\ e.Image = (IF IsZero(v.v) THEN <<>> ELSE SpriteURL(v.v))

\* the turns the walk takes, read off the shape of the lineage alone: it goes
\* on while the node has a child and that child's children are all objects
RECURSIVE TurnsByShape(_)
TurnsByShape(raw) ==
    IF raw.kids = <<>> \/ \E i \in 1 .. Len(raw.kids[1].kids) : raw.kids[1].kids[i].t # "node"
    THEN 1
    ELSE 1 + TurnsByShape(raw.kids[1])

Gathered == IF pc = "evo_ret" THEN retEvs.val ELSE out

\* C10, as claimed: every entry has id 0 and no image when the last part of
\* its species URL does not parse as an unsigned integer, else the parsed id
\* and the sprite URL filled with it; either way the walk goes on to the
\* first child.
C10_EntryFromURL ==
    (pc \in {"evo_walk", "evo_ret"} /\ ChainRead /\ ~retEvs.err) =>
        /\ \A i \in 1 .. Len(Gathered) :
              EntryAsClaimed(Gathered[i], FirstChildPath(resp2.chain)[i])
        /\ pc = "evo_ret" => Len(retEvs.val) = TurnsByShape(resp2.chain)

\* C10, amended: as claimed, but a last part that parses to 0 gives id 0
\* and no image; the walk goes on to the first child in the same cases
\* whatever the URLs are.
C10_EntryFromURLZeroUnresolved ==
    (pc \in {"evo_walk", "evo_ret"} /\ ChainRead /\ ~retEvs.err) =>
        /\ \A i \in 1 .. Len(Gathered) :
              EntryAsBuilt(Gathered[i], FirstChildPath(resp2.chain)[i])
        /\ pc = "evo_ret" => Len(retEvs.val) = TurnsByShape(resp2.chain)

\* a root whose URL ends in "x/": id 0, no image, and the walk went on to a
\* child whose URL ends in "1/"
C10_Witness ==
    /\ pc = "evo_ret"
    /\ ChainRead
    /\ Len(retEvs.val) = 2
    /\ resp2.chain.url = SpeciesURL(<<"x", "/">>)
    /\ retEvs.val[1] = [Name |-> "missingno", ID |-> W0, Image |-> <<>>]
    /\ retEvs.val[2] = [Name |-> "bulbasaur", ID |-> W(1),
                        Image |-> <<SpritePrefix, "1", ".png">>]

=============================================================================
